---------------------------- MODULE Spec2Model ----------------------------
(***************************************************************************)
(* Model of the Mandelbrot sampling engine of rust-mandelbrot:             *)
(*   src/src/mandelbrot/sample.rs  sample_grid, sample_pixel,              *)
(*                                 pixel_to_complex,                       *)
(*                                 super_sample_mandelbrot, random_offset, *)
(*                                 sample_mandelbrot, smooth_iteration     *)
(*   src/src/main.rs               sample_mandelbrot (integer variant)     *)
(*                                                                         *)
(* Numbers.  The code computes in f64.  The model works on the lattice of  *)
(* Gaussian integers: every complex point has integer coordinates, the     *)
(* threshold is a positive integer and 1/zoom is an even positive integer  *)
(* (inv_zoom).  On such inputs every product, sum and comparison made by   *)
(* the escape loop is exact in f64 (all values stay far below 2^53), so    *)
(* the integer arithmetic below is the arithmetic of the code.  The only   *)
(* transcendental step, smooth_iteration, is modelled by the two integers  *)
(* that bracket its real value (see SmoothIteration).                      *)
(*                                                                         *)
(* A real value is a record [lo, hi, den]: the value lo/den when lo = hi,  *)
(* and otherwise a value strictly between lo/den and hi/den.               *)
(***************************************************************************)
EXTENDS Integers, Sequences, FiniteSets, TLC

(***************************************************************************)
(* Bounds of the model.                                                    *)
(***************************************************************************)
\* Width of the unsigned iteration counter (u32 in the code, scaled down).
CounterBits == 2
\* Largest coordinate of the lattice points given to the evaluator.
MaxCoord == 2
\* Largest coordinate of the pixel points given to the supersampler.
MaxPixelCoord == 0
\* Largest threshold given to the evaluator.
MaxThreshold == 5
\* Largest samples-per-pixel value given to the supersampler.
MaxSamples == 5
\* inv_zoom ranges over 2, 4, ..., 2 * MaxHalfWidth.
MaxHalfWidth == 2
\* Largest resolution and worker count given to sample_grid.
MaxXRes == 2
MaxYRes == 2
MaxWorkers == 2
\* Largest samples-per-pixel value given to sample_grid.
MaxGridSamples == 1
\* max_iterations used by the supersampler and grid specifications.
PixelIterations == 3

(***************************************************************************)
(* Program constants.                                                      *)
(***************************************************************************)
\* `if y % 100 == 0`
ProgressEvery == 100
\* `progress_bar.inc(100)`
ProgressInc == 100
\* `default_value_t = 2.0` of Args.threshold
DefaultThreshold == 2

RECURSIVE Pow2(_)
Pow2(n) == IF n = 0 THEN 1 ELSE 2 * Pow2(n - 1)

\* Largest value of the unsigned counter type.
U32Max == Pow2(CounterBits) - 1

(***************************************************************************)
(* Complex<f64> on the lattice.                                            *)
(***************************************************************************)
CAdd(a, b) == <<a[1] + b[1], a[2] + b[2]>>
CSub(a, b) == <<a[1] - b[1], a[2] - b[2]>>
CMul(a, b) == <<a[1] * b[1] - a[2] * b[2], a[1] * b[2] + a[2] * b[1]>>
NormSqr(w) == w[1] * w[1] + w[2] * w[2]

(***************************************************************************)
(* Option<f64>.                                                            *)
(***************************************************************************)
None == [some |-> FALSE, lo |-> 0, hi |-> 0, den |-> 1]
Some(lo, hi, den) == [some |-> TRUE, lo |-> lo, hi |-> hi, den |-> den]


VARIABLES
    args,              \* the Args the run was started with
    \* sample_mandelbrot
    variant,           \* "sample": sample.rs, "main": main.rs
    c,                 \* the point being evaluated
    z,                 \* the orbit's current value
    iteration,         \* the loop counter (the range's next value)
    eval_pc,           \* "loop" | "done"
    escape,            \* the value returned
    orbit,             \* history: z after each executed iteration
    wrapped,           \* history: some u32 addition exceeded the type
    \* super_sample_mandelbrot
    location,          \* the pixel's mapped point
    dx, dy,            \* the sub-cell loop counters
    sum,               \* running sum of the diverged samples
    diverged_samples,  \* running count of the diverged samples
    super_pc,          \* "loop" | "done"
    super_result,      \* the value returned
    evaluated,         \* history: offset and value of each evaluation
    \* sample_grid
    result,            \* the grid, result[x][y]
    column,            \* per column: state, next row, owning worker
    progress_bar,      \* position of the progress bar
    writes,            \* history: number of writes of each cell
    writers,           \* history: the workers that wrote each cell
    returned           \* sample_grid has returned its SampleResult

evalVars == <<variant, c, z, iteration, eval_pc, escape, orbit, wrapped>>
superVars == <<location, dx, dy, sum, diverged_samples, super_pc, super_result, evaluated>>
gridVars == <<result, column, progress_bar, writes, writers, returned>>
vars == <<args, evalVars, superVars, gridVars>>

(***************************************************************************)
(* Args.  inv_zoom is 1.0 / args.zoom; offsets are lattice coordinates.    *)
(***************************************************************************)
MakeArgs(xr, yr, ro, co, iz, t, n, s, sm, w) ==
    [x_res |-> xr, y_res |-> yr, real_offset |-> ro, complex_offset |-> co,
     inv_zoom |-> iz, threshold |-> t, max_iterations |-> n, samples |-> s,
     smooth |-> sm, workers |-> w]

(***************************************************************************)
(* sample_mandelbrot and smooth_iteration.                                 *)
(***************************************************************************)
\* f64::hypot(z.re, z.im) > args.threshold.  hypot is the rounded square
\* root of re^2 + im^2; for integer re, im and threshold the comparison is
\* decided by the integers under the root.
HypotExceeds(w, t) == NormSqr(w) > t * t

\* main.rs: z.norm_sqr() > threshold_squared
NormSqrExceeds(w, t) ==
    LET threshold_squared == t * t
    IN  NormSqr(w) > threshold_squared

Exceeds(v, w, t) == IF v = "main" THEN NormSqrExceeds(w, t) ELSE HypotExceeds(w, t)

\* p = 2^(2^(m+1)) <= nsq on entry.  Returns floor(L) and whether L is an
\* integer, for L = log2(log2(sqrt(nsq))).
RECURSIVE LogLogFrom(_, _, _)
LogLogFrom(p, nsq, m) ==
    IF p * p > nsq
    THEN [floor |-> m, exact |-> (p = nsq)]
    ELSE LogLogFrom(p * p, nsq, m + 1)

\* (z.norm().ln() / 2.0_f64.ln()).ln() / 2.0_f64.ln(), for |z|^2 >= 2
\* (which an escape past a threshold >= 1 on the lattice guarantees).
LogLog2(w) == LogLogFrom(2, NormSqr(w), -1)

\* iteration as f64 + 1.0 - L, with L strictly inside (floor, floor + 1)
\* unless exact.
SmoothIteration(it, w) ==
    LET l == LogLog2(w)
    IN  IF l.exact
        THEN Some(it + 1 - l.floor, it + 1 - l.floor, 1)
        ELSE Some(it + 1 - l.floor - 1, it + 1 - l.floor, 1)

\* A u32 result that does not fit the type.
Overflows(v) == v > U32Max

\* (iteration + 1) in u32, as the release build computes it.
EscapeCountOffByOne(it) == it % (U32Max + 1)
EscapeCount(it) == (it + 1) % (U32Max + 1)

\* `for iteration in 0..args.max_iterations`
LoopBoundInclusive(a) == a.max_iterations + 1
LoopBound(a) == a.max_iterations

\* z = (z * z) + c
NextZ(w, p) == CAdd(CMul(w, w), p)

\* The value returned on the first exceedance.
EscapeValue(v, a, it, w) ==
    IF v = "sample" /\ a.smooth
    THEN SmoothIteration(it, w)
    ELSE Some(EscapeCount(it), EscapeCount(it), 1)

\* The single element of a one-element set.
TheOne(S) == CHOOSE r \in S : TRUE

\* The loop from iteration `it` on, z being w.  (w1, the new z, is bound by
\* a set constructor so that it is computed once per iteration.)
RECURSIVE Iterate(_, _, _, _, _)
Iterate(v, a, p, w, it) ==
    IF it >= LoopBound(a)
    THEN None
    ELSE TheOne({IF Exceeds(v, w1, a.threshold)
                 THEN EscapeValue(v, a, it, w1)
                 ELSE Iterate(v, a, p, w1, it + 1) : w1 \in {NextZ(w, p)}})

\* sample.rs sample_mandelbrot(args, c), run to completion.
SampleMandelbrot(a, p) == Iterate("sample", a, p, <<0, 0>>, 0)

(***************************************************************************)
(* Idle values of the variables a specification does not use.              *)
(***************************************************************************)
EvalIdle ==
    /\ variant = "sample" /\ c = <<0, 0>> /\ z = <<0, 0>> /\ iteration = 0
    /\ eval_pc = "idle" /\ escape = None /\ orbit = <<>> /\ wrapped = FALSE

SuperIdle ==
    /\ location = <<0, 0>> /\ dx = 0 /\ dy = 0 /\ sum = [lo |-> 0, hi |-> 0]
    /\ diverged_samples = 0 /\ super_pc = "idle" /\ super_result = None
    /\ evaluated = <<>>

GridIdle ==
    /\ result = <<>> /\ column = <<>> /\ progress_bar = 0
    /\ writes = <<>> /\ writers = <<>> /\ returned = FALSE

(***************************************************************************)
(* EvalSpec: one call of sample_mandelbrot, one loop iteration per step.   *)
(***************************************************************************)
Lattice == (-MaxCoord .. MaxCoord) \X (-MaxCoord .. MaxCoord)
\* The lattice, and the far point (10, 10) of the evaluator's documented case.
EvalPoints == Lattice \cup {<<10, 10>>}

EvalInit ==
    /\ \E t \in 1 .. MaxThreshold, n \in 0 .. U32Max, sm \in BOOLEAN :
           args = MakeArgs(1, 1, 0, 0, 2, t, n, 1, sm, 1)
    /\ variant \in {"sample", "main"}
    /\ c \in EvalPoints
    /\ z = <<0, 0>>
    /\ iteration = 0
    /\ eval_pc = "loop"
    /\ escape = None
    /\ orbit = <<>>
    /\ wrapped = FALSE
    /\ SuperIdle /\ GridIdle

\* One iteration of the loop body: the range yields `iteration` (and steps
\* its start to iteration + 1), z is advanced and tested.
EvalIter ==
    /\ eval_pc = "loop"
    /\ iteration < LoopBound(args)
    /\ LET z1 == NextZ(z, c)
           esc == Exceeds(variant, z1, args.threshold)
       IN  /\ z' = z1
           /\ orbit' = Append(orbit, z1)
           /\ wrapped' = (wrapped \/ Overflows(iteration + 1))
           /\ IF esc
              THEN /\ escape' = EscapeValue(variant, args, iteration, z1)
                   /\ eval_pc' = "done"
                   /\ UNCHANGED iteration
              ELSE /\ iteration' = (iteration + 1) % (U32Max + 1)
                   /\ UNCHANGED <<escape, eval_pc>>
    /\ UNCHANGED <<args, variant, c, superVars, gridVars>>

\* The range is exhausted: the function returns None.
EvalExhausted ==
    /\ eval_pc = "loop"
    /\ iteration >= LoopBound(args)
    /\ escape' = None
    /\ eval_pc' = "done"
    /\ UNCHANGED <<args, variant, c, z, iteration, orbit, wrapped, superVars, gridVars>>

EvalNext == EvalIter \/ EvalExhausted

EvalSpec == EvalInit /\ [][EvalNext]_vars

(***************************************************************************)
(* super_sample_mandelbrot and random_offset.                              *)
(***************************************************************************)
\* num::integer::Roots::sqrt: the truncated integer square root.
IsqrtCeiling(n) == CHOOSE s \in 0 .. n : s * s >= n /\ (s = 0 \/ (s - 1) * (s - 1) < n)
Isqrt(n) == CHOOSE s \in 0 .. n : s * s <= n /\ n < (s + 1) * (s + 1)

\* a <= b * sqrt(n), for integers a, b and n >= 1.
LeRoot(a, b, n) ==
    IF b >= 0
    THEN a <= 0 \/ a * a <= b * b * n
    ELSE a <= 0 /\ a * a >= b * b * n

\* With subpixel_width w = inv_zoom / sqrt(samples): the lattice value q is
\* d * w + r for some r that rng.random_range(-half_range..half_range) can
\* return, half_range = w / 2.  The range is half-open: -half_range is a
\* possible value, half_range is not.
InRandomRangeWhole(q, d, n, iz) ==
    /\ LeRoot((2 * d - 2) * iz, 2 * q, n)
    /\ ~LeRoot((2 * d + 2) * iz, 2 * q, n)
InRandomRange(q, d, n, iz) ==
    /\ LeRoot((2 * d - 1) * iz, 2 * q, n)
    /\ ~LeRoot((2 * d + 1) * iz, 2 * q, n)

\* The displacements sample_location - c that random_offset can produce for
\* the sub-cell (dx, dy): subpixel_center - c plus the jitter.
RandomOffsets(ddx, ddy, a) ==
    LET span == (-2 * a.inv_zoom) .. ((Isqrt(a.samples) + 2) * a.inv_zoom)
    IN  {q \in span \X span :
            /\ InRandomRange(q[1], ddx, a.samples, a.inv_zoom)
            /\ InRandomRange(q[2], ddy, a.samples, a.inv_zoom)}

\* sum += sample
AddSample(sm, v) == [lo |-> sm.lo + v.lo, hi |-> sm.hi + v.hi]

\* The value returned after the loops: Some(sum / diverged_samples) or None.
AverageOverAll(sm, dv) ==
    IF dv > 0 THEN Some(sm.lo, sm.hi, Len(evaluated)) ELSE None
Average(sm, dv) ==
    IF dv > 0 THEN Some(sm.lo, sm.hi, dv) ELSE None

(***************************************************************************)
(* SuperSpec: one call of super_sample_mandelbrot, one sub-sample per      *)
(* step.  Init draws configurations whose sub-cells are at least one       *)
(* lattice unit wide (inv_zoom^2 >= samples), so that every sub-cell holds *)
(* a lattice point the jitter can land on.                                 *)
(***************************************************************************)
InvZooms == {2 * i : i \in 1 .. MaxHalfWidth}

SuperInit ==
    /\ \E iz \in InvZooms, n \in 0 .. MaxSamples, sm \in BOOLEAN :
           /\ iz * iz >= n
           /\ args = MakeArgs(1, 1, 0, 0, iz, DefaultThreshold, PixelIterations, n, sm, 1)
    /\ location \in (-MaxPixelCoord .. MaxPixelCoord) \X (-MaxPixelCoord .. MaxPixelCoord)
    /\ dx = 0 /\ dy = 0
    /\ sum = [lo |-> 0, hi |-> 0]
    /\ diverged_samples = 0
    /\ super_pc = "loop"
    /\ super_result = None
    /\ evaluated = <<>>
    /\ EvalIdle /\ GridIdle

\* One pass of the inner loop body, for the sub-cell (dx, dy).
SuperSample ==
    /\ super_pc = "loop"
    /\ dx < Isqrt(args.samples)
    /\ \E off \in RandomOffsets(dx, dy, args) :
           LET sample_location == CAdd(location, off)
               sample == SampleMandelbrot(args, sample_location)
           IN  /\ evaluated' = Append(evaluated, [offset |-> off, value |-> sample])
               /\ IF sample.some
                  THEN /\ sum' = AddSample(sum, sample)
                       /\ diverged_samples' = diverged_samples + 1
                  ELSE UNCHANGED <<sum, diverged_samples>>
    /\ IF dy + 1 < Isqrt(args.samples)
       THEN dy' = dy + 1 /\ UNCHANGED dx
       ELSE dy' = 0 /\ dx' = dx + 1
    /\ UNCHANGED <<args, location, super_pc, super_result, evalVars, gridVars>>

\* The loops are over: the average is returned.
SuperReturn ==
    /\ super_pc = "loop"
    /\ dx >= Isqrt(args.samples)
    /\ super_result' = Average(sum, diverged_samples)
    /\ super_pc' = "done"
    /\ UNCHANGED <<args, location, dx, dy, sum, diverged_samples, evaluated,
                   evalVars, gridVars>>

SuperNext == SuperSample \/ SuperReturn

SuperSpec == SuperInit /\ [][SuperNext]_vars

(***************************************************************************)
(* pixel_to_complex, sample_pixel and the whole of                         *)
(* super_sample_mandelbrot as one operator.                                *)
(***************************************************************************)
\* Complex::new(args.real_offset, args.complex_offset)
Offset(a) == <<a.real_offset, a.complex_offset>>

\* (Complex::new(x_res, y_res) / zoom) / 2; exact, since inv_zoom is even.
Center(a) == <<(a.x_res * a.inv_zoom) \div 2, (a.y_res * a.inv_zoom) \div 2>>

\* sample + offset - center, with sample = Complex::new(x, y) / zoom
PixelToComplex(pixel, center, offset, iz) ==
    LET sample == <<pixel[1] * iz, pixel[2] * iz>>
    IN  CSub(CAdd(sample, offset), center)

\* The (sum, diverged_samples) pairs the loops can hold after the first i
\* sub-cells, in loop order (dx outer, dy inner).
RECURSIVE SuperLoop(_, _, _, _)
SuperLoop(a, p, i, accs) ==
    LET s == Isqrt(a.samples)
    IN  IF i >= s * s
        THEN accs
        ELSE SuperLoop(a, p, i + 1,
                 {LET sample == SampleMandelbrot(a, CAdd(p, off))
                  IN  IF sample.some
                      THEN [sum |-> AddSample(acc.sum, sample), diverged |-> acc.diverged + 1]
                      ELSE acc
                  : acc \in accs, off \in RandomOffsets(i \div s, i % s, a)})

\* Every value super_sample_mandelbrot(args, c) can return.
SuperSampleMandelbrot(a, p) ==
    {Average(acc.sum, acc.diverged) :
        acc \in SuperLoop(a, p, 0, {[sum |-> [lo |-> 0, hi |-> 0], diverged |-> 0]})}

\* Every value sample_pixel(args, offset, center, x, y) can return.
SamplePixel(a, offset, center, x, y) ==
    SuperSampleMandelbrot(a, PixelToComplex(<<x, y>>, center, offset, a.inv_zoom))

(***************************************************************************)
(* sample_grid: result.par_iter_mut().enumerate().for_each(...).  Each     *)
(* column is one unit of work, taken by one worker of the pool and run     *)
(* row by row; for_each returns when every unit has run to its end.        *)
(***************************************************************************)
Columns == 0 .. (args.x_res - 1)
Rows == 0 .. (args.y_res - 1)
Workers == 1 .. args.workers

GridInit ==
    /\ \E xr \in 0 .. MaxXRes, yr \in 0 .. MaxYRes, w \in 1 .. MaxWorkers,
          iz \in {2}, n \in 0 .. MaxGridSamples, sm \in BOOLEAN :
           /\ iz * iz >= n
           /\ args = MakeArgs(xr, yr, 0, 0, iz, DefaultThreshold, PixelIterations, n, sm, w)
    /\ result = [x \in Columns |-> [y \in Rows |-> None]]
    /\ column = [x \in Columns |-> [state |-> "pending", y |-> 0, owner |-> 0]]
    /\ progress_bar = 0
    /\ writes = [x \in Columns |-> [y \in Rows |-> 0]]
    /\ writers = [x \in Columns |-> [y \in Rows |-> {}]]
    /\ returned = FALSE
    /\ EvalIdle /\ SuperIdle

\* A column no worker has been given yet.
ClaimableAgain(x) == column[x].state # "done"
Claimable(x) == column[x].state = "pending"

\* Worker w is running no column.
Idle(w) == \A x \in Columns : ~(column[x].state = "active" /\ column[x].owner = w)

\* Worker w is handed column x and enters the closure (`for y in 0..y_res`).
Claim(w, x) ==
    /\ Idle(w)
    /\ Claimable(x)
    /\ column' = [column EXCEPT ![x] =
                     [state |-> IF args.y_res = 0 THEN "done" ELSE "active",
                      y |-> 0, owner |-> w]]
    /\ UNCHANGED <<args, result, progress_bar, writes, writers, returned,
                   evalVars, superVars>>

\* One pass of the loop body by worker w on its column x, at row y.
Step(w, x) ==
    /\ column[x].state = "active"
    /\ column[x].owner = w
    /\ LET y == column[x].y
       IN  /\ \E sample \in SamplePixel(args, Offset(args), Center(args), x, y) :
                  result' = [result EXCEPT ![x][y] = sample]
           /\ writes' = [writes EXCEPT ![x][y] = @ + 1]
           /\ writers' = [writers EXCEPT ![x][y] = @ \cup {w}]
           /\ progress_bar' = IF y % ProgressEvery = 0
                              THEN progress_bar + ProgressInc
                              ELSE progress_bar
           /\ column' = [column EXCEPT ![x] =
                            [state |-> IF y + 1 < args.y_res THEN "active" ELSE "done",
                             y |-> y + 1, owner |-> w]]
    /\ UNCHANGED <<args, returned, evalVars, superVars>>

\* for_each has nothing left to wait for.
JoinedEarly == \A x \in Columns : column[x].state # "pending"
Joined == \A x \in Columns : column[x].state = "done"

\* for_each returns and sample_grid hands out the SampleResult.
Return ==
    /\ ~returned
    /\ Joined
    /\ returned' = TRUE
    /\ UNCHANGED <<args, result, column, progress_bar, writes, writers,
                   evalVars, superVars>>

Next ==
    \/ \E w \in Workers, x \in Columns : Claim(w, x)
    \/ \E w \in Workers, x \in Columns : Step(w, x)
    \/ Return

Spec == GridInit /\ [][Next]_vars

\* The scheduling of the pass does not depend on the values sampled: the
\* fair specification runs the unsmoothed, one-sample configurations.
FairInit == GridInit /\ args.samples = 1 /\ ~args.smooth

\* The pool runs every worker that has work, and for_each returns once it can.
FairSpec ==
    /\ FairInit /\ [][Next]_vars
    /\ \A w \in 1 .. MaxWorkers : WF_vars(\E x \in Columns : Claim(w, x) \/ Step(w, x))
    /\ WF_vars(Return)

(***************************************************************************)
(* Vocabulary of the properties.                                           *)
(***************************************************************************)
\* The real value v can lie in the closed interval [a, b].
PossiblyWithin(v, a, b) ==
    IF v.lo = v.hi
    THEN a * v.den <= v.lo /\ v.lo <= b * v.den
    ELSE v.hi > a * v.den /\ v.lo < b * v.den

\* The real value v can lie in the half-open interval [k, k + 1).
PossiblyInUnitInterval(v, k) ==
    IF v.lo = v.hi
    THEN k * v.den <= v.lo /\ v.lo < (k + 1) * v.den
    ELSE v.hi > k * v.den /\ v.lo < (k + 1) * v.den

RECURSIVE SumOver(_, _)
SumOver(f, S) ==
    IF S = {} THEN 0
    ELSE LET e == CHOOSE e \in S : TRUE IN f[e] + SumOver(f, S \ {e})

Cells == Columns \X Rows
TotalWrites == SumOver([p \in Cells |-> writes[p[1]][p[2]]], Cells)

EvalDone == eval_pc = "done"
Unsmoothed == variant = "main" \/ ~args.smooth
Smoothed == variant = "sample" /\ args.smooth

(***************************************************************************)
(* C1: in sample_grid, under every interleaving of the workers, no cell is *)
(* ever written twice or by two workers, a cell is written only by the     *)
(* worker that owns its column, and when sample_grid returns every cell    *)
(* (x, y), 0 <= x < x_res, 0 <= y < y_res, has been written exactly once:  *)
(* x_res * y_res writes in all.                                            *)
(***************************************************************************)
C1_EachCellWrittenOnce ==
    /\ \A x \in Columns : \A y \in Rows :
           /\ writes[x][y] <= 1
           /\ Cardinality(writers[x][y]) <= 1
           /\ writers[x][y] \subseteq {column[x].owner}
           /\ returned => writes[x][y] = 1
    /\ returned => TotalWrites = args.x_res * args.y_res

\* Two workers have each written cells of a grid of several columns and
\* rows, and sample_grid has returned.
C1_Witness ==
    /\ returned
    /\ args.x_res >= 2 /\ args.y_res >= 2
    /\ \E x1, x2 \in Columns : column[x1].owner # column[x2].owner

(***************************************************************************)
(* C2 (as claimed): when sample_grid returns, the progress counter, which  *)
(* starts at 0 and sums the increments of all workers, equals              *)
(* x_res * y_res.                                                          *)
(***************************************************************************)
C2_ProgressEqualsCells == returned => progress_bar = args.x_res * args.y_res

(***************************************************************************)
(* C3: sample_grid blocks until every worker has finished.  Under fair     *)
(* scheduling of the workers the pass completes and sample_grid returns;   *)
(* when it has returned every column has run to its end and every cell has *)
(* been written; and no cell is written once it has returned.              *)
(***************************************************************************)
C3_ReturnsAfterAllWorkers ==
    /\ <>returned
    /\ [](returned => /\ \A x \in Columns : column[x].state = "done"
                      /\ \A x \in Columns : \A y \in Rows : writes[x][y] = 1)
    /\ [][returned => writes' = writes /\ result' = result]_vars

\* sample_grid has returned a grid that two workers filled.
C3_Witness ==
    /\ returned
    /\ args.x_res >= 2 /\ args.y_res >= 1
    /\ \E x1, x2 \in Columns : column[x1].owner # column[x2].owner

(***************************************************************************)
(* C4: the unsmoothed evaluator (sample.rs with smoothing off, and         *)
(* main.rs) follows z_1 = c, z_(j+1) = z_j^2 + c, and returns present(k)   *)
(* for the smallest k in 1..N with |z_k| > T, absent when there is none.   *)
(* In particular: absent for N = 0; absent for c = (0, 0); present(1) for  *)
(* c = (10, 10) with T = 2 and N >= 1.                                     *)
(***************************************************************************)
C4_FirstEscape ==
    (EvalDone /\ Unsmoothed) =>
        LET k == Len(orbit)
            n == args.max_iterations
            t == args.threshold
        IN  /\ \A j \in 1 .. k :
                   orbit[j] = CAdd(CMul(IF j = 1 THEN <<0, 0>> ELSE orbit[j - 1],
                                        IF j = 1 THEN <<0, 0>> ELSE orbit[j - 1]), c)
            /\ \A j \in 1 .. (k - 1) : NormSqr(orbit[j]) <= t * t
            /\ escape.some =>
                   /\ k \in 1 .. n
                   /\ NormSqr(orbit[k]) > t * t
                   /\ escape = Some(k, k, 1)
            /\ ~escape.some =>
                   /\ k = n
                   /\ \A j \in 1 .. n : NormSqr(orbit[j]) <= t * t
            /\ n = 0 => ~escape.some
            /\ c = <<0, 0>> => ~escape.some
            /\ (c = <<10, 10>> /\ t = 2 /\ n >= 1) => escape = Some(1, 1, 1)

\* An orbit that stays within the threshold twice and escapes at k = 3.
C4_Witness ==
    /\ EvalDone /\ Unsmoothed /\ variant = "sample"
    /\ escape = Some(3, 3, 1)

(***************************************************************************)
(* C5 (as claimed): with smoothing on and a threshold T >= 2, an orbit     *)
(* that first exceeds T at iteration k (1-indexed) returns                 *)
(* k + 1 - log(log|z_k| / log T) / log 2, and that value lies in           *)
(* [k, k + 1).                                                             *)
(***************************************************************************)
ClaimedSmooth(k, w, t) ==
    LET l == LogLogFrom(t, NormSqr(w), -1)
    IN  IF l.exact
        THEN Some(k + 1 - l.floor, k + 1 - l.floor, 1)
        ELSE Some(k + 1 - l.floor - 1, k + 1 - l.floor, 1)

C5_SmoothedInUnitInterval ==
    (EvalDone /\ Smoothed /\ escape.some /\ args.threshold >= 2) =>
        /\ escape = ClaimedSmooth(Len(orbit), z, args.threshold)
        /\ PossiblyInUnitInterval(escape, Len(orbit))

(***************************************************************************)
(* C6: super_sample_mandelbrot returns absent exactly when none of the     *)
(* sub-samples it evaluated diverged; otherwise it returns the sum of the  *)
(* diverged sub-samples' values divided by their number.                   *)
(***************************************************************************)
DivergedIndices == {i \in 1 .. Len(evaluated) : evaluated[i].value.some}

C6_AverageOfDiverged ==
    super_pc = "done" =>
        /\ super_result.some <=> DivergedIndices # {}
        /\ super_result.some =>
               /\ super_result.den = Cardinality(DivergedIndices)
               /\ super_result.lo =
                      SumOver([i \in DivergedIndices |-> evaluated[i].value.lo], DivergedIndices)
               /\ super_result.hi =
                      SumOver([i \in DivergedIndices |-> evaluated[i].value.hi], DivergedIndices)

\* A pixel of four sub-samples of which some diverged and some did not.
C6_Witness ==
    /\ super_pc = "done"
    /\ Len(evaluated) = 4
    /\ Cardinality(DivergedIndices) \in 1 .. 3
    /\ super_result.some

(***************************************************************************)
(* C7 (as claimed): when sample_grid has returned, the grid is x_res by    *)
(* y_res and every cell is absent or present with 1 <= v <=                *)
(* max_iterations, whatever the smoothing flag and the jitter.             *)
(***************************************************************************)
C7_CellsInRange ==
    returned =>
        /\ DOMAIN result = Columns
        /\ \A x \in Columns :
               /\ DOMAIN result[x] = Rows
               /\ \A y \in Rows :
                      \/ ~result[x][y].some
                      \/ PossiblyWithin(result[x][y], 1, args.max_iterations)

(***************************************************************************)
(* C8: for samples_per_pixel = n >= 0, one call of                         *)
(* super_sample_mandelbrot evaluates the escape-time function s * s times, *)
(* s * s the largest perfect square not above n; with n = 0 there is no    *)
(* evaluation and the pixel is absent.                                     *)
(***************************************************************************)
C8_TruncatedSquare ==
    super_pc = "done" =>
        /\ \E s \in 0 .. args.samples :
               /\ s * s <= args.samples
               /\ args.samples < (s + 1) * (s + 1)
               /\ Len(evaluated) = s * s
        /\ args.samples = 0 => (evaluated = <<>> /\ ~super_result.some)

\* n = 5 is no perfect square: 4 evaluations.
C8_Witness ==
    /\ super_pc = "done"
    /\ args.samples = 5
    /\ Len(evaluated) = 4

(***************************************************************************)
(* C9 (as claimed): with samples_per_pixel = 1 and zoom > 0 there is one   *)
(* evaluation, at a point whose real and imaginary parts differ from the   *)
(* pixel's mapped point by an amount strictly inside the open interval     *)
(* (-subpixel_width / 2, +subpixel_width / 2), subpixel_width = 1 / zoom.  *)
(***************************************************************************)
C9_JitterInOpenInterval ==
    (super_pc = "done" /\ args.samples = 1) =>
        /\ Len(evaluated) = 1
        /\ \A i \in 1 .. 2 :
               /\ -args.inv_zoom < 2 * evaluated[1].offset[i]
               /\ 2 * evaluated[1].offset[i] < args.inv_zoom

(***************************************************************************)
(* C9 (amended): with samples_per_pixel = 1 and zoom > 0 there is one      *)
(* evaluation, at a point whose real and imaginary parts differ from the   *)
(* pixel's mapped point by an amount in the half-open interval             *)
(* [-subpixel_width / 2, +subpixel_width / 2): the lower end can occur,    *)
(* the upper end cannot.                                                   *)
(***************************************************************************)
C9_JitterInHalfOpenInterval ==
    (super_pc = "done" /\ args.samples = 1) =>
        /\ Len(evaluated) = 1
        /\ \A i \in 1 .. 2 :
               /\ -args.inv_zoom <= 2 * evaluated[1].offset[i]
               /\ 2 * evaluated[1].offset[i] < args.inv_zoom

\* The single evaluation sits exactly subpixel_width / 2 below the pixel's
\* point on the real axis.
C9_Witness ==
    /\ super_pc = "done" /\ args.samples = 1
    /\ Len(evaluated) = 1
    /\ 2 * evaluated[1].offset[1] = -args.inv_zoom

(***************************************************************************)
(* C10: in sample_mandelbrot no addition on the unsigned iteration counter *)
(* exceeds the counter's type, for every max_iterations the type holds,    *)
(* its largest value included: the counter stays below max_iterations and  *)
(* the escape count iteration + 1 is returned unwrapped.                   *)
(***************************************************************************)
C10_NoCounterOverflow ==
    /\ ~wrapped
    /\ iteration <= U32Max
    /\ (EvalDone /\ Unsmoothed /\ escape.some) => escape.lo = iteration + 1

\* max_iterations is the largest value of the type and the orbit escapes in
\* the last iteration.
C10_Witness ==
    /\ EvalDone /\ Unsmoothed
    /\ args.max_iterations = U32Max
    /\ escape.some /\ escape.lo = U32Max

=============================================================================
